---- MODULE Spec2Model ----
(***************************************************************************)
(* Local forger of Tezos operation groups (pytezos/operation/forge.py).    *)
(*                                                                         *)
(* Values.  A byte string is a sequence of 0..255.  A Python str is a      *)
(* sequence of code points.  A base58check string is represented by what   *)
(* it decodes to: [t |-> "b58", prefix, payload, valid].  A numeric field  *)
(* is [t |-> "int", n |-> k] or [t |-> "str", s |-> <<code points>>].      *)
(* Python's None is [t |-> "none"].  A dict is a TLA+ function whose       *)
(* DOMAIN is the set of keys it holds.                                     *)
(*                                                                         *)
(* A call either returns bytes, Ok(b), or raises, Err(e).                  *)
(***************************************************************************)
EXTENDS Integers, Sequences, FiniteSets, TLC

VARIABLES
    reserved_entrypoints,   \* the module-level table, forge.py:16-23
    pc,                     \* per caller: where its current call stands
    fn,                     \* per caller: the function it called
    arg,                    \* per caller: the input value it passed
    res,                    \* per caller: the local buffer `res`
    parts,                  \* per caller: the pieces map() has produced so far
    ret                     \* per caller: what the finished call gave back

vars == <<reserved_entrypoints, pc, fn, arg, res, parts, ret>>

(***************************************************************************)
(* Results and their composition                                           *)
(***************************************************************************)
Ok(b) == [ok |-> TRUE, v |-> b]
Err(e) == [ok |-> FALSE, err |-> e]

\* f applied to the value of r, or r's error
Bind(r, F(_)) == IF r.ok THEN F(r.v) ELSE r

\* `res = a; res += b; res += c ...`: the first piece that raises aborts all
RECURSIVE CatR(_)
CatR(rs) ==
    IF rs = <<>> THEN Ok(<<>>)
    ELSE IF ~Head(rs).ok THEN Head(rs)
    ELSE LET rest == CatR(Tail(rs))
         IN  IF rest.ok THEN Ok(Head(rs).v \o rest.v) ELSE rest

\* b''.join(pieces)
RECURSIVE Join(_)
Join(bs) == IF bs = <<>> THEN <<>> ELSE Head(bs) \o Join(Tail(bs))

\* content[k]: KeyError when the key is missing
Field(c, k) == IF k \in DOMAIN c THEN Ok(c[k]) ELSE Err("KeyError")

None == [t |-> "none"]
PyInt(k) == [t |-> "int", n |-> k]
PyStr(cps) == [t |-> "str", s |-> cps]

\* Python truth value of what content.get(k) returns
Truthy(v) ==
    CASE v.t = "none" -> FALSE
      [] v.t = "str"  -> v.s # <<>>
      [] v.t = "int"  -> v.n # 0
      [] OTHER        -> TRUE

\* content.get(k): None when the key is missing
Get(c, k) == IF k \in DOMAIN c THEN c[k] ELSE None

(***************************************************************************)
(* Python built-ins the forger calls                                       *)
(***************************************************************************)
IsDigit(cp) == cp \in 48..57

RECURSIVE DigitsValue(_, _)
DigitsValue(s, acc) ==
    IF s = <<>> THEN acc ELSE DigitsValue(Tail(s), (acc * 10) + (Head(s) - 48))

\* int(x): an int is itself, a str is parsed as a signed decimal
py_int(x) ==
    CASE x.t = "int" -> Ok(x.n)
      [] x.t = "str" ->
            LET neg == x.s # <<>> /\ Head(x.s) = 45
                ds  == IF neg THEN Tail(x.s) ELSE x.s
            IN  IF ds # <<>> /\ \A i \in 1..Len(ds) : IsDigit(ds[i])
                THEN Ok(IF neg THEN 0 - DigitsValue(ds, 0) ELSE DigitsValue(ds, 0))
                ELSE Err("ValueError")
      [] OTHER -> Err("TypeError")

\* one code point as UTF-8
Utf8Char(cp) ==
    IF cp < 128 THEN <<cp>>
    ELSE IF cp < 2048 THEN <<192 + (cp \div 64), 128 + (cp % 64)>>
    ELSE IF cp < 65536
         THEN <<224 + (cp \div 4096), 128 + ((cp \div 64) % 64), 128 + (cp % 64)>>
    ELSE <<240 + (cp \div 262144), 128 + ((cp \div 4096) % 64),
           128 + ((cp \div 64) % 64), 128 + (cp % 64)>>

\* str.encode()
RECURSIVE encode(_)
encode(s) == IF s = <<>> THEN <<>> ELSE Utf8Char(Head(s)) \o encode(Tail(s))

IsSpace(cp) == cp \in {32, 9, 10, 11, 12, 13}
IsHex(cp) == cp \in (48..57) \cup (97..102) \cup (65..70)
HexVal(cp) == IF cp \in 48..57 THEN cp - 48
              ELSE IF cp \in 97..102 THEN cp - 87 ELSE cp - 55

\* bytes.fromhex(s): two hex digits per byte, white space between bytes skipped
RECURSIVE fromhex(_)
fromhex(s) ==
    IF s = <<>> THEN Ok(<<>>)
    ELSE IF IsSpace(Head(s)) THEN fromhex(Tail(s))
    ELSE IF Len(s) >= 2 /\ IsHex(s[1]) /\ IsHex(s[2])
         THEN LET rest == fromhex(Tail(Tail(s)))
              IN  IF rest.ok THEN Ok(<<(16 * HexVal(s[1])) + HexVal(s[2])>> \o rest.v)
                  ELSE rest
    ELSE Err("ValueError")

\* n.to_bytes(width, 'big')
RECURSIVE BigEndian(_, _)
BigEndian(n, width) ==
    IF width = 0 THEN <<>> ELSE BigEndian(n \div 256, width - 1) \o <<n % 256>>

Pow256(w) == IF w = 1 THEN 256 ELSE IF w = 2 THEN 65536 ELSE 16777216

\* n fits `width` unsigned bytes (a 4-byte bound is beyond the model's integers)
Fits(n, width) == n >= 0 /\ (width >= 4 \/ n < Pow256(width))

(***************************************************************************)
(* L1 primitives and L2 Micheline (pytezos.michelson.forge, imported at    *)
(* forge.py:4-13; their bodies follow the specification's section 4.1/4.2) *)
(***************************************************************************)

\* nat(n): little-endian base 128, continuation bit on all bytes but the last
RECURSIVE NatBytes(_)
NatBytes(n) == IF n < 128 THEN <<n>> ELSE <<128 + (n % 128)>> \o NatBytes(n \div 128)

forge_nat(n) == IF n < 0 THEN Err("InvalidArgument") ELSE Ok(NatBytes(n))

\* int(n): sign in bit 6 of the first byte, 6 payload bits, then 7 per byte
forge_int(n) ==
    LET a == IF n < 0 THEN 0 - n ELSE n
        first == (a % 64) + (IF n < 0 THEN 64 ELSE 0)
    IN  IF a < 64 THEN <<first>> ELSE <<128 + first>> \o NatBytes(a \div 64)

\* big-endian two's complement of `width` bytes
TwosComplement(n, width) ==
    IF n >= 0 THEN BigEndian(n, width)
    ELSE [i \in 1..width |-> 255 - BigEndian(0 - n - 1, width)[i]]

forge_int16(x) ==
    IF x.t # "int" THEN Err("TypeError")
    ELSE IF x.n < 0 - 32768 \/ x.n > 32767 THEN Err("InvalidArgument")
    ELSE Ok(TwosComplement(x.n, 2))

forge_int32(n) == Ok(TwosComplement(n, 4))

forge_bool(b) == IF b THEN <<255>> ELSE <<0>>

\* array(payload, len_bytes): big-endian length, then the payload
forge_array(payload, len_bytes) ==
    IF ~Fits(Len(payload), len_bytes) THEN Err("OverflowLength")
    ELSE Ok(BigEndian(Len(payload), len_bytes) \o payload)

\* textual prefix -> payload length; 0: not in the table
PrefixLength(p) ==
    CASE p \in {"tz1", "tz2", "tz3", "KT1", "sr1", "txr1"} -> 20
      [] p \in {"edpk", "B", "o", "src1", "scr1"} -> 32
      [] p \in {"sppk", "p2pk"} -> 33
      [] p \in {"edsig", "spsig", "p2sig", "sig"} -> 64
      [] OTHER -> 0

\* base58(s): checksum verified, known prefix stripped, payload returned
forge_base58(x) ==
    IF x.t # "b58" THEN Err("InvalidArgument")
    ELSE IF ~x.valid THEN Err("InvalidChecksum")
    ELSE IF PrefixLength(x.prefix) = 0 \/ PrefixLength(x.prefix) # Len(x.payload)
         THEN Err("UnknownPrefix")
    ELSE Ok(x.payload)

CurveTag(p) == CASE p \in {"tz1", "edpk"} -> 0
                 [] p \in {"tz2", "sppk"} -> 1
                 [] OTHER -> 2

forge_address(x, tz_only) ==
    LET b == forge_base58(x)
    IN  IF ~b.ok THEN b
        ELSE IF x.prefix \in {"tz1", "tz2", "tz3"}
             THEN Ok((IF tz_only THEN <<>> ELSE <<0>>) \o <<CurveTag(x.prefix)>> \o b.v)
        ELSE IF tz_only THEN Err("InvalidArgument")
        ELSE IF x.prefix = "KT1" THEN Ok(<<1>> \o b.v \o <<0>>)
        ELSE IF x.prefix = "txr1" THEN Ok(<<2>> \o b.v \o <<0>>)
        ELSE IF x.prefix = "sr1" THEN Ok(<<3>> \o b.v \o <<0>>)
        ELSE Err("UnknownPrefix")

forge_public_key(x) ==
    LET b == forge_base58(x)
    IN  IF ~b.ok THEN b
        ELSE IF x.prefix \in {"edpk", "sppk", "p2pk"}
             THEN Ok(<<CurveTag(x.prefix)>> \o b.v)
        ELSE Err("UnknownPrefix")

\* Michelson primitive name -> opcode; -1: not in the table
PrimTag(name) ==
    CASE name = "parameter" -> 0
      [] name = "storage" -> 1
      [] name = "code" -> 2
      [] name = "False" -> 3
      [] name = "Elt" -> 4
      [] name = "Left" -> 5
      [] name = "None" -> 6
      [] name = "Pair" -> 7
      [] name = "Right" -> 8
      [] name = "Some" -> 9
      [] name = "True" -> 10
      [] name = "Unit" -> 11
      [] name = "unit" -> 108
      [] OTHER -> 0 - 1

\* micheline(e): one shape tag, then the shape's bytes
RECURSIVE forge_micheline(_)
forge_micheline(e) ==
    LET children(es) == CatR([i \in 1..Len(es) |-> forge_micheline(es[i])])
        arr(b) == forge_array(b, 4)
    IN  IF "list" \in DOMAIN e
            THEN CatR(<<Ok(<<2>>), Bind(children(e.list), arr)>>)
        ELSE IF "int" \in DOMAIN e
            THEN LET n == py_int(PyStr(e.int))
                 IN  IF n.ok THEN Ok(<<0>> \o forge_int(n.v)) ELSE n
        ELSE IF "string" \in DOMAIN e
            THEN CatR(<<Ok(<<1>>), forge_array(encode(e.string), 4)>>)
        ELSE IF "bytes" \in DOMAIN e
            THEN CatR(<<Ok(<<10>>), Bind(fromhex(e.bytes), arr)>>)
        ELSE IF "prim" \notin DOMAIN e THEN Err("InvalidArgument")
        ELSE IF PrimTag(e.prim) < 0 THEN Err("UnknownPrim")
        ELSE LET args == IF "args" \in DOMAIN e THEN e.args ELSE <<>>
             IN  IF Len(args) <= 2
                 THEN CatR(<<Ok(<<3 + (2 * Len(args)), PrimTag(e.prim)>>), children(args)>>)
                 ELSE CatR(<<Ok(<<9, PrimTag(e.prim)>>), Bind(children(args), arr),
                             forge_array(<<>>, 4)>>)

\* script = array(micheline(code), 4) . array(micheline(storage), 4)
forge_script(script) ==
    LET arr(b) == forge_array(b, 4)
    IN  CatR(<<Bind(Bind(Field(script, "code"), forge_micheline), arr),
               Bind(Bind(Field(script, "storage"), forge_micheline), arr)>>)

\* operation kind -> tag (pytezos.rpc.kind, imported at forge.py:14); -1: no tag
operation_tags(kind) ==
    CASE kind = "endorsement" -> 0
      [] kind = "activate_account" -> 4
      [] kind = "endorsement_with_slot" -> 10
      [] kind = "failing_noop" -> 17
      [] kind = "reveal" -> 107
      [] kind = "transaction" -> 108
      [] kind = "origination" -> 109
      [] kind = "delegation" -> 110
      [] kind = "register_global_constant" -> 111
      [] kind = "transfer_ticket" -> 158
      [] kind = "smart_rollup_add_messages" -> 201
      [] kind = "smart_rollup_execute_outbox_message" -> 206
      [] OTHER -> 0 - 1

(***************************************************************************)
(* L3: pytezos/operation/forge.py                                          *)
(***************************************************************************)

\* the strings the code names, as code points
S_default == <<100, 101, 102, 97, 117, 108, 116>>
S_root == <<114, 111, 111, 116>>
S_do == <<100, 111>>
S_set_delegate == <<115, 101, 116, 95, 100, 101, 108, 101, 103, 97, 116, 101>>
S_remove_delegate == <<114, 101, 109, 111, 118, 101, 95, 100, 101, 108, 101, 103, 97, 116, 101>>
S_deposit == <<100, 101, 112, 111, 115, 105, 116>>

\* the table as the module defines it
ReservedTable ==
    (S_default :> <<0>>) @@ (S_root :> <<1>>) @@ (S_do :> <<2>>) @@
    (S_set_delegate :> <<3>>) @@ (S_remove_delegate :> <<4>>) @@ (S_deposit :> <<5>>)

\* faulty variant: the default-unit call is not left out
has_parameters_any(content) == Truthy(Get(content, "parameters"))

has_parameters(content) ==
    IF Truthy(Get(content, "parameters"))
    THEN IF content.parameters.entrypoint = S_default
            /\ content.parameters.value = [prim |-> "Unit"]
         THEN FALSE
         ELSE TRUE
    ELSE FALSE

\* faulty variant: the length byte counts characters, not UTF-8 bytes
forge_entrypoint_charlen(entrypoint) ==
    IF entrypoint \in DOMAIN reserved_entrypoints
    THEN Ok(reserved_entrypoints[entrypoint])
    ELSE Ok(<<255, Len(entrypoint)>> \o encode(entrypoint))

forge_entrypoint(entrypoint) ==
    IF entrypoint \in DOMAIN reserved_entrypoints
    THEN Ok(reserved_entrypoints[entrypoint])
    ELSE CatR(<<Ok(<<255>>), forge_array(encode(entrypoint), 1)>>)

forge_tag(operation_tag) ==
    IF Fits(operation_tag, 1) THEN Ok(<<operation_tag>>) ELSE Err("OverflowError")

\* forge_tag(operation_tags[content['kind']])
TagOf(content) ==
    IF operation_tags(content.kind) < 0 THEN Err("KeyError")
    ELSE forge_tag(operation_tags(content.kind))

\* forge_address(content[k], tz_only)
AddressField(content, k, tz_only) ==
    Bind(Field(content, k), LAMBDA x : forge_address(x, tz_only))

\* forge_nat(int(content[k]))
NatField(content, k) == Bind(Bind(Field(content, k), py_int), forge_nat)

\* forge_base58(content[k])
Base58Field(content, k) == Bind(Field(content, k), forge_base58)

\* forge_array(forge_micheline(content[k]))
MichelineField(content, k) ==
    Bind(Bind(Field(content, k), forge_micheline), LAMBDA b : forge_array(b, 4))

\* forge_array(bytes.fromhex(x))
HexArray(x) == Bind(fromhex(x), LAMBDA b : forge_array(b, 4))

forge_activate_account(content) ==
    CatR(<<TagOf(content),
           Base58Field(content, "pkh"),
           Bind(Field(content, "secret"), fromhex)>>)

forge_reveal(content) ==
    CatR(<<TagOf(content),
           AddressField(content, "source", TRUE),
           NatField(content, "fee"),
           NatField(content, "counter"),
           NatField(content, "gas_limit"),
           NatField(content, "storage_limit"),
           Bind(Field(content, "public_key"), forge_public_key)>>)

forge_transaction(content) ==
    CatR(<<TagOf(content),
           AddressField(content, "source", TRUE),
           NatField(content, "fee"),
           NatField(content, "counter"),
           NatField(content, "gas_limit"),
           NatField(content, "storage_limit"),
           NatField(content, "amount"),
           AddressField(content, "destination", FALSE)>>
         \o (IF has_parameters(content)
             THEN <<Ok(forge_bool(TRUE)),
                    forge_entrypoint(content.parameters.entrypoint),
                    MichelineField(content.parameters, "value")>>
             ELSE <<Ok(forge_bool(FALSE))>>))

forge_origination(content) ==
    CatR(<<TagOf(content),
           AddressField(content, "source", TRUE),
           NatField(content, "fee"),
           NatField(content, "counter"),
           NatField(content, "gas_limit"),
           NatField(content, "storage_limit"),
           NatField(content, "balance")>>
         \o (IF Truthy(Get(content, "delegate"))
             THEN <<Ok(forge_bool(TRUE)), AddressField(content, "delegate", TRUE)>>
             ELSE <<Ok(forge_bool(FALSE))>>)
         \o <<Bind(Field(content, "script"), forge_script)>>)

\* faulty variant: the delegate is forged as a full address, not as a tz address
forge_delegation_full_address(content) ==
    CatR(<<TagOf(content),
           AddressField(content, "source", TRUE),
           NatField(content, "fee"),
           NatField(content, "counter"),
           NatField(content, "gas_limit"),
           NatField(content, "storage_limit")>>
         \o (IF Truthy(Get(content, "delegate"))
             THEN <<Ok(forge_bool(TRUE)), AddressField(content, "delegate", FALSE)>>
             ELSE <<Ok(forge_bool(FALSE))>>))

\* faulty variant: a parameters field is forged after the delegate, as a transaction's is
forge_delegation_with_parameters(content) ==
    CatR(<<TagOf(content),
           AddressField(content, "source", TRUE),
           NatField(content, "fee"),
           NatField(content, "counter"),
           NatField(content, "gas_limit"),
           NatField(content, "storage_limit")>>
         \o (IF Truthy(Get(content, "delegate"))
             THEN <<Ok(forge_bool(TRUE)), AddressField(content, "delegate", TRUE)>>
             ELSE <<Ok(forge_bool(FALSE))>>)
         \o (IF Truthy(Get(content, "parameters"))
             THEN <<forge_entrypoint(content.parameters.entrypoint)>>
             ELSE <<>>))

forge_delegation(content) ==
    CatR(<<TagOf(content),
           AddressField(content, "source", TRUE),
           NatField(content, "fee"),
           NatField(content, "counter"),
           NatField(content, "gas_limit"),
           NatField(content, "storage_limit")>>
         \o (IF Truthy(Get(content, "delegate"))
             THEN <<Ok(forge_bool(TRUE)), AddressField(content, "delegate", TRUE)>>
             ELSE <<Ok(forge_bool(FALSE))>>))

forge_endorsement(content) ==
    CatR(<<TagOf(content),
           Bind(Bind(Field(content, "level"), py_int), forge_int32)>>)

forge_inline_endorsement(content) ==
    CatR(<<Base58Field(content, "branch"),
           Bind(Field(content, "operations"),
                LAMBDA o : IF operation_tags(o.kind) < 0 THEN Err("KeyError")
                           ELSE forge_nat(operation_tags(o.kind))),
           Bind(Field(content, "operations"),
                LAMBDA o : Bind(Bind(Field(o, "level"), py_int), forge_int32)),
           Base58Field(content, "signature")>>)

forge_endorsement_with_slot(content) ==
    CatR(<<TagOf(content),
           Bind(Bind(Field(content, "endorsement"), forge_inline_endorsement),
                LAMBDA b : forge_array(b, 4)),
           Bind(Field(content, "slot"), forge_int16)>>)

forge_failing_noop(content) ==
    CatR(<<TagOf(content),
           Bind(Field(content, "arbitrary"), LAMBDA a : forge_array(encode(a), 4))>>)

forge_register_global_constant(content) ==
    CatR(<<TagOf(content),
           AddressField(content, "source", TRUE),
           NatField(content, "fee"),
           NatField(content, "counter"),
           NatField(content, "gas_limit"),
           NatField(content, "storage_limit"),
           MichelineField(content, "value")>>)

\* faulty variant: counter is forged before fee
forge_transfer_ticket_swapped(content) ==
    CatR(<<TagOf(content),
           AddressField(content, "source", TRUE),
           NatField(content, "counter"),
           NatField(content, "fee"),
           NatField(content, "gas_limit"),
           NatField(content, "storage_limit"),
           MichelineField(content, "ticket_contents"),
           MichelineField(content, "ticket_ty"),
           AddressField(content, "ticket_ticketer", FALSE),
           NatField(content, "ticket_amount"),
           AddressField(content, "destination", FALSE),
           Bind(Field(content, "entrypoint"), LAMBDA e : forge_array(encode(e), 4))>>)

forge_transfer_ticket(content) ==
    CatR(<<TagOf(content),
           AddressField(content, "source", TRUE),
           NatField(content, "fee"),
           NatField(content, "counter"),
           NatField(content, "gas_limit"),
           NatField(content, "storage_limit"),
           MichelineField(content, "ticket_contents"),
           MichelineField(content, "ticket_ty"),
           AddressField(content, "ticket_ticketer", FALSE),
           NatField(content, "ticket_amount"),
           AddressField(content, "destination", FALSE),
           Bind(Field(content, "entrypoint"), LAMBDA e : forge_array(encode(e), 4))>>)

forge_smart_rollup_add_messages(content) ==
    CatR(<<TagOf(content),
           AddressField(content, "source", TRUE),
           NatField(content, "fee"),
           NatField(content, "counter"),
           NatField(content, "gas_limit"),
           NatField(content, "storage_limit"),
           Bind(Field(content, "message"),
                LAMBDA ms : Bind(CatR([i \in 1..Len(ms) |-> HexArray(ms[i])]),
                                 LAMBDA b : forge_array(b, 4)))>>)

forge_smart_rollup_execute_outbox_message(content) ==
    CatR(<<TagOf(content),
           AddressField(content, "source", TRUE),
           NatField(content, "fee"),
           NatField(content, "counter"),
           NatField(content, "gas_limit"),
           NatField(content, "storage_limit"),
           Base58Field(content, "rollup"),
           Base58Field(content, "cemented_commitment"),
           Bind(Field(content, "output_proof"), HexArray)>>)

\* the kinds of the dispatch table encode_content
SupportedKinds ==
    {"failing_noop", "activate_account", "reveal", "transaction", "origination",
     "delegation", "endorsement", "endorsement_with_slot", "register_global_constant",
     "transfer_ticket", "smart_rollup_add_messages",
     "smart_rollup_execute_outbox_message"}

forge_operation(content) ==
    IF "kind" \notin DOMAIN content THEN Err("KeyError")
    ELSE IF content.kind \notin SupportedKinds THEN Err("NotImplementedError")
    ELSE CASE content.kind = "failing_noop" -> forge_failing_noop(content)
           [] content.kind = "activate_account" -> forge_activate_account(content)
           [] content.kind = "reveal" -> forge_reveal(content)
           [] content.kind = "transaction" -> forge_transaction(content)
           [] content.kind = "origination" -> forge_origination(content)
           [] content.kind = "delegation" -> forge_delegation(content)
           [] content.kind = "endorsement" -> forge_endorsement(content)
           [] content.kind = "endorsement_with_slot" -> forge_endorsement_with_slot(content)
           [] content.kind = "register_global_constant" ->
                  forge_register_global_constant(content)
           [] content.kind = "transfer_ticket" -> forge_transfer_ticket(content)
           [] content.kind = "smart_rollup_add_messages" ->
                  forge_smart_rollup_add_messages(content)
           [] content.kind = "smart_rollup_execute_outbox_message" ->
                  forge_smart_rollup_execute_outbox_message(content)

\* the value forge_operation_group returns, as one expression
forge_operation_group(operation_group) ==
    CatR(<<Base58Field(operation_group, "branch"),
           Bind(Field(operation_group, "contents"),
                LAMBDA cs : CatR([i \in 1..Len(cs) |-> forge_operation(cs[i])]))>>)

(***************************************************************************)
(* Inputs the callers pass                                                 *)
(***************************************************************************)
MaxContents == 3        \* longest contents list of a group

\* str(n) for n >= 0
RECURSIVE Decimal(_)
Decimal(n) == IF n < 10 THEN <<48 + n>> ELSE Decimal(n \div 10) \o <<48 + (n % 10)>>

B58(prefix, len, byte, valid) ==
    [t |-> "b58", prefix |-> prefix, payload |-> [i \in 1..len |-> byte], valid |-> valid]

TZ1 == B58("tz1", 20, 17, TRUE)
TZ2 == B58("tz2", 20, 34, TRUE)
KT1 == B58("KT1", 20, 51, TRUE)
SR1 == B58("sr1", 20, 68, TRUE)
EDPK == B58("edpk", 32, 85, TRUE)
SIG == B58("sig", 64, 102, TRUE)
SRC1 == B58("src1", 32, 119, TRUE)
BRANCH == B58("B", 32, 171, TRUE)
BADBRANCH == B58("B", 32, 171, FALSE)

S_mint == <<109, 105, 110, 116>>
S_accented == <<233, 8364>>
S_long == [i \in 1..31 |-> 97]

Unit == [prim |-> "Unit"]
UnitNoArgs == [prim |-> "Unit", args |-> <<>>]
MinusOne == [int |-> <<45, 49>>]
PairExpr == [prim |-> "Pair", args |-> <<Unit, MinusOne>>]
UnknownPrim == [prim |-> "Foo"]

Params(ep, value) == [t |-> "dict", entrypoint |-> ep, value |-> value]

\* source, fee, counter, gas_limit, storage_limit: as strings, as ints, other values
Manager(kind, form) ==
    CASE form = "str" ->
            [kind |-> kind, source |-> TZ1, fee |-> PyStr(Decimal(300)),
             counter |-> PyStr(Decimal(1)), gas_limit |-> PyStr(Decimal(10100)),
             storage_limit |-> PyStr(Decimal(0))]
      [] form = "int" ->
            [kind |-> kind, source |-> TZ1, fee |-> PyInt(300), counter |-> PyInt(1),
             gas_limit |-> PyInt(10100), storage_limit |-> PyInt(0)]
      [] OTHER ->
            [kind |-> kind, source |-> TZ2, fee |-> PyInt(0), counter |-> PyStr(Decimal(128)),
             gas_limit |-> PyInt(16384), storage_limit |-> PyStr(Decimal(257))]

Forms == {"str", "int", "mixed"}

\* a numeric value in both forms
Num(n) == {PyInt(n), PyStr(Decimal(n))}

ParameterChoices ==
    {None, Params(S_default, Unit), Params(S_default, UnitNoArgs),
     Params(S_default, MinusOne), Params(S_mint, Unit), Params(S_root, PairExpr),
     Params(S_accented, Unit), Params(S_default, UnknownPrim)}

DelegateChoices == {None, TZ1, TZ2, KT1}

HEX_aabb == <<97, 97, 98, 98>>
SecretChoices ==
    {[i \in 1..40 |-> 97 + (i % 6)], HEX_aabb, <<>>, <<65, 66>>, <<97, 97, 32, 98, 98>>,
     <<122, 122>>, <<97, 98, 99>>}

Transactions ==
    {Manager("transaction", f) @@ [amount |-> a, destination |-> d] :
        f \in Forms, a \in Num(1000), d \in {TZ2, KT1}}
    \cup {Manager("transaction", f) @@ [amount |-> PyInt(0), destination |-> KT1,
                                        parameters |-> p] :
        f \in {"str", "mixed"}, p \in ParameterChoices}

Script == [code |-> [list |-> <<[prim |-> "parameter", args |-> <<[prim |-> "unit"]>>]>>],
           storage |-> Unit]

Originations ==
    {Manager("origination", f) @@ [balance |-> b, script |-> Script] :
        f \in Forms, b \in Num(5)}
    \cup {Manager("origination", "str") @@ [balance |-> PyInt(0), script |-> Script,
                                            delegate |-> d] : d \in DelegateChoices}

Delegations ==
    {Manager("delegation", f) : f \in Forms}
    \cup {Manager("delegation", f) @@ [delegate |-> d] :
            f \in {"int", "mixed"}, d \in DelegateChoices}

Reveals == {Manager("reveal", f) @@ [public_key |-> EDPK] : f \in Forms}

GlobalConstants == {Manager("register_global_constant", f) @@ [value |-> v] :
                f \in Forms, v \in {Unit, PairExpr}}

Tickets ==
    {Manager("transfer_ticket", f) @@
        [ticket_contents |-> Unit, ticket_ty |-> [prim |-> "unit"], ticket_ticketer |-> KT1,
         ticket_amount |-> a, destination |-> KT1, entrypoint |-> S_default] :
        f \in Forms, a \in Num(7)}

RollupMessages ==
    {Manager("smart_rollup_add_messages", f) @@ [message |-> m] :
        f \in Forms, m \in {<<>>, <<HEX_aabb, <<>>>>, <<<<122>>>>}}

RollupOutbox ==
    {Manager("smart_rollup_execute_outbox_message", f) @@
        [rollup |-> SR1, cemented_commitment |-> SRC1, output_proof |-> HEX_aabb] :
        f \in Forms}

Endorsements == {[kind |-> "endorsement", level |-> l] : l \in Num(1) \cup Num(70000)}

SlotEndorsements ==
    {[kind |-> "endorsement_with_slot",
      endorsement |-> [branch |-> BRANCH,
                       operations |-> [kind |-> "endorsement", level |-> l],
                       signature |-> SIG],
      slot |-> sl] : l \in Num(3), sl \in Num(2) \cup {PyInt(40000)}}

Activations == {[kind |-> "activate_account", pkh |-> TZ1, secret |-> x] : x \in SecretChoices}

Noops == {[kind |-> "failing_noop", arbitrary |-> a] : a \in {S_mint, S_accented, <<>>}}

\* kinds the dispatch table does not hold
Unsupported ==
    {Manager("ballot", "int"), Manager("proposals", "str"),
     [kind |-> "seed_nonce_revelation", level |-> PyInt(1)]}

\* what the encoder of each kind reads from the content
Referenced(kind) ==
    LET manager == {"kind", "source", "fee", "counter", "gas_limit", "storage_limit"}
    IN  CASE kind = "reveal" -> manager \cup {"public_key"}
          [] kind = "transaction" -> manager \cup {"amount", "destination", "parameters"}
          [] kind = "origination" -> manager \cup {"balance", "delegate", "script"}
          [] kind = "delegation" -> manager \cup {"delegate"}
          [] kind = "register_global_constant" -> manager \cup {"value"}
          [] kind = "transfer_ticket" ->
                manager \cup {"ticket_contents", "ticket_ty", "ticket_ticketer",
                              "ticket_amount", "destination", "entrypoint"}
          [] kind = "smart_rollup_add_messages" -> manager \cup {"message"}
          [] kind = "smart_rollup_execute_outbox_message" ->
                manager \cup {"rollup", "cemented_commitment", "output_proof"}
          [] kind = "endorsement" -> {"kind", "level"}
          [] kind = "endorsement_with_slot" -> {"kind", "endorsement", "slot"}
          [] kind = "activate_account" -> {"kind", "pkh", "secret"}
          [] kind = "failing_noop" -> {"kind", "arbitrary"}
          [] OTHER -> {"kind"}

\* fields a content may carry besides those of its kind
Extras ==
    [parameters |-> Params(S_mint, PairExpr), public_key |-> EDPK, delegate |-> TZ2,
     source |-> TZ2, fee |-> PyInt(9), counter |-> PyInt(8), gas_limit |-> PyInt(7),
     storage_limit |-> PyInt(6), amount |-> PyInt(5), secret |-> <<122>>,
     signature |-> SIG, metadata |-> None]

WithExtras(c) ==
    c @@ [k \in DOMAIN Extras \ Referenced(c.kind) |-> Extras[k]]

PlainContents ==
    Transactions \cup Originations \cup Delegations \cup Reveals \cup GlobalConstants
    \cup Tickets \cup RollupMessages \cup RollupOutbox \cup Endorsements
    \cup SlotEndorsements \cup Activations \cup Noops \cup Unsupported

Contents == PlainContents \cup {WithExtras(c) : c \in PlainContents}

Entrypoints ==
    DOMAIN ReservedTable \cup {S_mint, S_accented, S_long, <<>>, <<68>> \o Tail(S_default)}

\* the contents groups are built from: two that forge, one that raises
GroupContents ==
    {Manager("delegation", "int"),
     Manager("transaction", "str") @@ [amount |-> PyInt(0), destination |-> KT1,
                                       parameters |-> Params(S_mint, Unit)],
     Manager("ballot", "int")}

BadSecret == [kind |-> "activate_account", pkh |-> TZ1, secret |-> <<122, 122>>]

ContentLists == UNION {[1..n -> GroupContents] : n \in 0..MaxContents}

\* lists that also hold a content raising another error than the unknown kind does
OtherLists ==
    {cs \in ContentLists : Len(cs) <= 1}
    \cup {<<c, BadSecret>> : c \in GroupContents}
    \cup {<<BadSecret, c>> : c \in GroupContents}

Groups ==
    {[branch |-> BRANCH, contents |-> cs] : cs \in ContentLists \cup OtherLists}
    \cup {[branch |-> BADBRANCH, contents |-> cs] : cs \in OtherLists}
    \cup {[branch |-> BRANCH, contents |-> cs, signature |-> SIG,
           protocol |-> PyStr(S_mint)] : cs \in OtherLists}

(***************************************************************************)
(* The callers: each runs one call at a time, and calls may interleave     *)
(***************************************************************************)
Callers == {1, 2}

InitWith(pcs) ==
    /\ reserved_entrypoints = ReservedTable
    /\ pc = pcs
    /\ fn = [t \in Callers |-> "none"]
    /\ arg = [t \in Callers |-> None]
    /\ res = [t \in Callers |-> <<>>]
    /\ parts = [t \in Callers |-> <<>>]
    /\ ret = [t \in Callers |-> None]

\* one caller
Init == InitWith((1 :> "idle") @@ (2 :> "off"))

\* two callers
InitConcurrent == InitWith([t \in Callers |-> "idle"])

\* forge_entrypoint(e), forge.py:34-42
CallEntrypoint(t) ==
    /\ pc[t] = "idle"
    /\ \E e \in Entrypoints :
        /\ fn' = [fn EXCEPT ![t] = "forge_entrypoint"]
        /\ arg' = [arg EXCEPT ![t] = [entrypoint |-> e]]
        /\ ret' = [ret EXCEPT ![t] = forge_entrypoint(e)]
    /\ pc' = [pc EXCEPT ![t] = "done"]
    /\ UNCHANGED <<reserved_entrypoints, res, parts>>

\* forge_operation(content), forge.py:49-72
CallOperation(t) ==
    /\ pc[t] = "idle"
    /\ \E c \in Contents :
        /\ fn' = [fn EXCEPT ![t] = "forge_operation"]
        /\ arg' = [arg EXCEPT ![t] = c]
        /\ ret' = [ret EXCEPT ![t] = forge_operation(c)]
    /\ pc' = [pc EXCEPT ![t] = "done"]
    /\ UNCHANGED <<reserved_entrypoints, res, parts>>

\* forge_operation_group(operation_group) is entered, forge.py:75
CallGroup(t) ==
    /\ pc[t] = "idle"
    /\ \E g \in Groups :
        /\ fn' = [fn EXCEPT ![t] = "forge_operation_group"]
        /\ arg' = [arg EXCEPT ![t] = g]
    /\ pc' = [pc EXCEPT ![t] = "branch"]
    /\ UNCHANGED <<reserved_entrypoints, res, parts, ret>>

\* the call raises e: its locals are gone, the caller gets the error
Raise(t, e) ==
    /\ ret' = [ret EXCEPT ![t] = e]
    /\ res' = [res EXCEPT ![t] = <<>>]
    /\ parts' = [parts EXCEPT ![t] = <<>>]
    /\ pc' = [pc EXCEPT ![t] = "done"]

\* res = forge_base58(operation_group['branch']), forge.py:80
ForgeBranch(t) ==
    /\ pc[t] = "branch"
    /\ LET b == Base58Field(arg[t], "branch")
       IN  IF ~b.ok THEN Raise(t, b)
           ELSE IF "contents" \notin DOMAIN arg[t] THEN Raise(t, Err("KeyError"))
           ELSE /\ res' = [res EXCEPT ![t] = b.v]
                /\ pc' = [pc EXCEPT ![t] = "map"]
                /\ UNCHANGED <<parts, ret>>
    /\ UNCHANGED <<reserved_entrypoints, fn, arg>>

\* faulty variant: each new piece is put in front of the earlier ones
ForgeNext_prepend(t) ==
    /\ pc[t] = "map"
    /\ Len(parts[t]) < Len(arg[t].contents)
    /\ LET piece == forge_operation(arg[t].contents[Len(parts[t]) + 1])
       IN  IF ~piece.ok THEN Raise(t, piece)
           ELSE /\ parts' = [parts EXCEPT ![t] = <<piece.v>> \o parts[t]]
                /\ UNCHANGED <<pc, res, ret>>
    /\ UNCHANGED <<reserved_entrypoints, fn, arg>>

\* faulty variant: a content that raises is skipped and the rest is forged
ForgeNext_swallow(t) ==
    /\ pc[t] = "map"
    /\ Len(parts[t]) < Len(arg[t].contents)
    /\ LET piece == forge_operation(arg[t].contents[Len(parts[t]) + 1])
       IN  /\ parts' = [parts EXCEPT ![t] = Append(parts[t], IF piece.ok THEN piece.v ELSE <<>>)]
           /\ UNCHANGED <<pc, res, ret>>
    /\ UNCHANGED <<reserved_entrypoints, fn, arg>>

\* faulty variant: the pieces are collected in one list all running calls share
ForgeNext_shared(t) ==
    /\ pc[t] = "map"
    /\ Len(parts[t]) < Len(arg[t].contents)
    /\ LET piece == forge_operation(arg[t].contents[Len(parts[t]) + 1])
       IN  IF ~piece.ok THEN Raise(t, piece)
           ELSE /\ parts' = [u \in Callers |->
                               IF u = t \/ pc[u] = "map"
                               THEN Append(parts[u], piece.v) ELSE parts[u]]
                /\ UNCHANGED <<pc, res, ret>>
    /\ UNCHANGED <<reserved_entrypoints, fn, arg>>

\* map(forge_operation, contents) yields its next piece to b''.join, forge.py:81
ForgeNext(t) ==
    /\ pc[t] = "map"
    /\ Len(parts[t]) < Len(arg[t].contents)
    /\ LET piece == forge_operation(arg[t].contents[Len(parts[t]) + 1])
       IN  IF ~piece.ok THEN Raise(t, piece)
           ELSE /\ parts' = [parts EXCEPT ![t] = Append(parts[t], piece.v)]
                /\ UNCHANGED <<pc, res, ret>>
    /\ UNCHANGED <<reserved_entrypoints, fn, arg>>

\* res += b''.join(...); return res, forge.py:81-82
JoinReturn(t) ==
    /\ pc[t] = "map"
    /\ Len(parts[t]) = Len(arg[t].contents)
    /\ ret' = [ret EXCEPT ![t] = Ok(res[t] \o Join(parts[t]))]
    /\ res' = [res EXCEPT ![t] = <<>>]
    /\ parts' = [parts EXCEPT ![t] = <<>>]
    /\ pc' = [pc EXCEPT ![t] = "done"]
    /\ UNCHANGED <<reserved_entrypoints, fn, arg>>

\* the caller has taken the result and is ready for its next call
Finish(t) ==
    /\ pc[t] = "done"
    /\ pc' = [pc EXCEPT ![t] = "idle"]
    /\ fn' = [fn EXCEPT ![t] = "none"]
    /\ arg' = [arg EXCEPT ![t] = None]
    /\ ret' = [ret EXCEPT ![t] = None]
    /\ UNCHANGED <<reserved_entrypoints, res, parts>>

Next ==
    \E t \in Callers :
        \/ CallEntrypoint(t)
        \/ CallOperation(t)
        \/ CallGroup(t)
        \/ ForgeBranch(t)
        \/ ForgeNext(t)
        \/ JoinReturn(t)
        \/ Finish(t)

Spec == Init /\ [][Next]_vars

SpecConcurrent == InitConcurrent /\ [][Next]_vars

(***************************************************************************)
(* Properties                                                              *)
(***************************************************************************)
Done(t, f) == pc[t] = "done" /\ fn[t] = f

IsPrefix(p, q) == Len(p) <= Len(q) /\ SubSeq(q, 1, Len(p)) = p

\* the pieces of a list laid end to end, last piece last
RECURSIVE InOrder(_)
InOrder(bs) ==
    IF bs = <<>> THEN <<>>
    ELSE InOrder(SubSeq(bs, 1, Len(bs) - 1)) \o bs[Len(bs)]

AllForge(cs) == \A i \in 1..Len(cs) : forge_operation(cs[i]).ok

\* C1: a group whose branch and contents all forge gives base58(branch) followed
\* by the forged contents in list order, one piece per content (equal contents
\* give equal pieces, each kept), and the branch alone for an empty list.
C1_GroupIsBranchThenContents ==
    \A t \in Callers :
        (/\ Done(t, "forge_operation_group")
         /\ forge_base58(arg[t].branch).ok
         /\ AllForge(arg[t].contents))
        => LET cs == arg[t].contents
               pieces == [i \in 1..Len(cs) |-> forge_operation(cs[i]).v]
           IN  /\ ret[t] = Ok(forge_base58(arg[t].branch).v \o InOrder(pieces))
               /\ cs = <<>> => ret[t] = forge_base58(arg[t].branch)

\* a finished group of three contents, the first and the last equal, the middle
\* one different
C1_Witness ==
    \E t \in Callers :
        /\ Done(t, "forge_operation_group")
        /\ ret[t].ok
        /\ Len(arg[t].contents) = 3
        /\ arg[t].contents[1] = arg[t].contents[3]
        /\ arg[t].contents[1] # arg[t].contents[2]

\* the expected parameters block of a transaction
ParametersAbsent(c) == "parameters" \notin DOMAIN c \/ c.parameters = None

DefaultUnit(c) ==
    /\ ~ParametersAbsent(c)
    /\ c.parameters.entrypoint = S_default
    /\ c.parameters.value = [prim |-> "Unit"]

WithoutParameters(c) == [k \in DOMAIN c \ {"parameters"} |-> c[k]]

\* C2: a forged transaction ends with bool(false) when it has no parameters (the
\* field is missing or None) or they are the default-unit call, and otherwise
\* with bool(true), forge_entrypoint(entrypoint), array(micheline(value), 4);
\* the default-unit call forges as the transaction without the field does.
C2_ParametersBlock ==
    \A t \in Callers :
        (Done(t, "forge_operation") /\ arg[t].kind = "transaction" /\ ret[t].ok)
        => LET c == arg[t]
               bare == forge_operation(WithoutParameters(c))
               n == Len(bare.v) - Len(forge_bool(FALSE))
               front == SubSeq(bare.v, 1, n)
           IN  /\ bare.ok
               /\ Len(forge_bool(FALSE)) = 1
               /\ bare.v = front \o forge_bool(FALSE)
               /\ IF ParametersAbsent(c) \/ DefaultUnit(c)
                  THEN ret[t] = bare
                  ELSE /\ forge_micheline(c.parameters.value).ok
                       /\ ret[t].v =
                            front \o forge_bool(TRUE)
                            \o forge_entrypoint(c.parameters.entrypoint).v
                            \o forge_array(forge_micheline(c.parameters.value).v, 4).v

\* a forged transaction whose parameters are the default-unit call
C2_Witness ==
    \E t \in Callers :
        /\ Done(t, "forge_operation")
        /\ arg[t].kind = "transaction"
        /\ "parameters" \in DOMAIN arg[t]
        /\ arg[t].parameters = Params(S_default, Unit)
        /\ ret[t].ok

\* C3: each reserved name forges to its one byte; any other name of 1..31
\* characters forges to 0xff, one byte holding the UTF-8 length of the name, and
\* the UTF-8 bytes; no other name gives a one-byte output.
C3_EntrypointCompression ==
    \A t \in Callers :
        Done(t, "forge_entrypoint")
        => LET e == arg[t].entrypoint
               r == ret[t]
           IN  /\ e = S_default => r = Ok(<<0>>)
               /\ e = S_root => r = Ok(<<1>>)
               /\ e = S_do => r = Ok(<<2>>)
               /\ e = S_set_delegate => r = Ok(<<3>>)
               /\ e = S_remove_delegate => r = Ok(<<4>>)
               /\ e = S_deposit => r = Ok(<<5>>)
               /\ e \notin {S_default, S_root, S_do, S_set_delegate,
                             S_remove_delegate, S_deposit}
                  => /\ r.ok => Len(r.v) # 1
                     /\ Len(e) \in 1..31
                        => /\ r = Ok(<<255>> \o forge_array(encode(e), 1).v)
                           /\ r.v[1] = 255
                           /\ r.v[2] = Len(encode(e))
                           /\ Len(r.v) = 2 + Len(encode(e))
                           /\ SubSeq(r.v, 3, Len(r.v)) = encode(e)

\* a forged name that is not reserved and whose UTF-8 form is longer than its
\* characters
C3_Witness ==
    \E t \in Callers :
        /\ Done(t, "forge_entrypoint")
        /\ arg[t].entrypoint = S_accented
        /\ ret[t] = Ok(<<255, 5, 195, 169, 226, 130, 172>>)

ManagerKinds ==
    {"reveal", "transaction", "origination", "delegation", "register_global_constant",
     "transfer_ticket", "smart_rollup_add_messages",
     "smart_rollup_execute_outbox_message"}

ManagerFields == {"source", "fee", "counter", "gas_limit", "storage_limit"}

\* tag . address(source, tz_only) . nat(fee) . nat(counter) . nat(gas_limit)
\* . nat(storage_limit)
ManagerPrefix(c) ==
    <<operation_tags(c.kind)>>
    \o forge_address(c.source, TRUE).v
    \o forge_nat(py_int(c.fee).v).v
    \o forge_nat(py_int(c.counter).v).v
    \o forge_nat(py_int(c.gas_limit).v).v
    \o forge_nat(py_int(c.storage_limit).v).v

\* C4: a forged manager operation begins with the tag of its kind, the source
\* as a tz address, and the naturals fee, counter, gas_limit, storage_limit, in
\* this order; a forged operation of another kind begins with its tag and
\* holds none of the five fields.
C4_ManagerPrefix ==
    \A t \in Callers :
        (Done(t, "forge_operation") /\ ret[t].ok)
        => LET c == arg[t]
           IN  /\ ret[t].v[1] = operation_tags(c.kind)
               /\ c.kind \in ManagerKinds => IsPrefix(ManagerPrefix(c), ret[t].v)
               /\ c.kind \notin ManagerKinds
                  => /\ ret[t] = forge_operation([k \in DOMAIN c \ ManagerFields |-> c[k]])
                     /\ ManagerFields \subseteq DOMAIN c
                        => ~IsPrefix(ManagerPrefix(c), ret[t].v)

\* a forged transfer_ticket whose fee, counter, gas_limit and storage_limit
\* all differ
C4_Witness ==
    \E t \in Callers :
        /\ Done(t, "forge_operation")
        /\ arg[t].kind = "transfer_ticket"
        /\ arg[t].fee = PyInt(0)
        /\ arg[t].counter = PyStr(Decimal(128))
        /\ ret[t].ok

\* the first content of a list that does not forge; 0 when all do
FirstFailing(cs) ==
    IF AllForge(cs) THEN 0
    ELSE CHOOSE i \in 1..Len(cs) :
            /\ ~forge_operation(cs[i]).ok
            /\ \A j \in 1..(i - 1) : forge_operation(cs[j]).ok

\* C5: a content of a kind the dispatch table lacks makes forge_operation
\* raise NotImplementedError (UnsupportedKind); a group holding a content that
\* does not forge raises that content's error whatever its position, and gives
\* no bytes.
C5_UnsupportedKindAborts ==
    \A t \in Callers :
        /\ (Done(t, "forge_operation") /\ arg[t].kind \notin SupportedKinds)
           => ret[t] = Err("NotImplementedError")
        /\ (/\ Done(t, "forge_operation_group")
            /\ forge_base58(arg[t].branch).ok
            /\ ~AllForge(arg[t].contents))
           => /\ ret[t] = forge_operation(arg[t].contents[FirstFailing(arg[t].contents)])
              /\ ~ret[t].ok
              /\ DOMAIN ret[t] = {"ok", "err"}

\* a finished group of three whose middle content alone is of an unknown kind
C5_Witness ==
    \E t \in Callers :
        /\ Done(t, "forge_operation_group")
        /\ Len(arg[t].contents) = 3
        /\ FirstFailing(arg[t].contents) = 2
        /\ forge_operation(arg[t].contents[3]).ok
        /\ ret[t] = Err("NotImplementedError")

\* the expected optional delegate: the field holds an address or holds nothing
\* (it is missing or None)
DelegatePresent(c) == "delegate" \in DOMAIN c /\ c.delegate # None

OptionalDelegate(c) ==
    IF DelegatePresent(c)
    THEN forge_bool(TRUE) \o forge_address(c.delegate, TRUE).v
    ELSE forge_bool(FALSE)

\* C6: a forged origination or delegation holds, after the manager prefix (and
\* the balance of an origination), 0xff and the delegate as a tz address when
\* the content has a delegate, the byte 0x00 when it has none; the script
\* follows in an origination and nothing follows in a delegation.
C6_OptionalDelegate ==
    \A t \in Callers :
        (Done(t, "forge_operation") /\ ret[t].ok)
        => LET c == arg[t]
           IN  /\ c.kind = "delegation"
                  => ret[t].v = ManagerPrefix(c) \o OptionalDelegate(c)
               /\ c.kind = "origination"
                  => ret[t].v = ManagerPrefix(c) \o forge_nat(py_int(c.balance).v).v
                                \o OptionalDelegate(c) \o forge_script(c.script).v

\* a forged delegation to a tz2 delegate
C6_Witness ==
    \E t \in Callers :
        /\ Done(t, "forge_operation")
        /\ arg[t].kind = "delegation"
        /\ "delegate" \in DOMAIN arg[t]
        /\ arg[t].delegate = TZ2
        /\ ret[t].ok

NumericFields ==
    {"fee", "counter", "gas_limit", "storage_limit", "amount", "balance",
     "ticket_amount", "level", "slot"}

\* v in the form f gives to the number it stands for
InForm(v, f(_)) == IF py_int(v).ok THEN f(py_int(v).v) ELSE v

\* the content with each of its numeric fields in one form
AllInForm(c, f(_)) ==
    [k \in DOMAIN c |->
        IF k \in NumericFields THEN InForm(c[k], f)
        ELSE IF k = "endorsement"
             THEN [c[k] EXCEPT !.operations.level = InForm(@, f)]
        ELSE c[k]]

AsInts(c) == AllInForm(c, PyInt)
AsStrings(c) == AllInForm(c, LAMBDA n : PyStr(Decimal(n)))

\* C7: a content forges alike with its numeric fields given as integers and
\* given as decimal strings.
C7_BothFormsForgeAlike ==
    \A t \in Callers :
        (Done(t, "forge_operation") /\ arg[t].kind \in SupportedKinds
         /\ forge_operation(AsInts(arg[t])).ok)
        => /\ forge_operation(AsStrings(arg[t])) = forge_operation(AsInts(arg[t]))
           /\ ret[t] = forge_operation(AsInts(arg[t]))

\* C8: a forged activate_account is the tag, the 20 bytes of pkh and the 20
\* bytes of the secret, 41 bytes in all; a secret that is no hex string or not
\* of 20 bytes raises and gives no bytes.
C8_ActivateAccountLength ==
    \A t \in Callers :
        (Done(t, "forge_operation") /\ arg[t].kind = "activate_account")
        => LET secret == fromhex(arg[t].secret)
           IN  /\ ret[t].ok
                  => /\ Len(ret[t].v) = 41
                     /\ ret[t].v = <<4>> \o arg[t].pkh.payload \o secret.v
               /\ (~secret.ok \/ Len(secret.v) # 20) => ret[t] = Err("ValueError")

\* what the call gives when nothing else runs
Serial(f, a) ==
    CASE f = "forge_entrypoint" -> forge_entrypoint(a.entrypoint)
      [] f = "forge_operation" -> forge_operation(a)
      [] f = "forge_operation_group" -> forge_operation_group(a)

Running(t) == pc[t] \in {"branch", "map", "done"}

C9_ResultOfOwnInput ==
    /\ reserved_entrypoints = ReservedTable
    /\ \A t \in Callers : pc[t] = "done" => ret[t] = Serial(fn[t], arg[t])
    /\ \A t, u \in Callers :
        (pc[t] = "done" /\ pc[u] = "done" /\ fn[t] = fn[u] /\ arg[t] = arg[u])
        => ret[t] = ret[u]

C9_InputsUntouched ==
    /\ reserved_entrypoints' = reserved_entrypoints
    /\ \A t \in Callers :
        (Running(t) /\ Running(t)') => (arg[t]' = arg[t] /\ fn[t]' = fn[t])

\* C9: whatever calls run and however their steps interleave, a finished call
\* has given what the same call gives alone on its input, equal inputs give
\* equal results, and no step changes the reserved-entrypoint table or the
\* input of a running call.
C9_Reentrant == []C9_ResultOfOwnInput /\ [][C9_InputsUntouched]_vars

\* one group call has finished while another, on a different group, is between
\* two of its contents
C9_Witness ==
    /\ Done(1, "forge_operation_group")
    /\ ret[1].ok
    /\ Len(arg[1].contents) = 2
    /\ pc[2] = "map"
    /\ Len(parts[2]) = 1
    /\ arg[2] # arg[1]

GroupKeys == {"branch", "contents"}

\* C10: a content of a supported kind forges as it does with only the fields
\* the encoder of its kind reads, and a group as it does with only its branch
\* and contents.
C10_UnrelatedFieldsIgnored ==
    \A t \in Callers :
        /\ (Done(t, "forge_operation") /\ arg[t].kind \in SupportedKinds)
           => ret[t] = forge_operation([k \in DOMAIN arg[t] \cap Referenced(arg[t].kind)
                                           |-> arg[t][k]])
        /\ Done(t, "forge_operation_group")
           => ret[t] = forge_operation_group([k \in GroupKeys |-> arg[t][k]])

\* a forged delegation that carries a parameters and a public_key field
C10_Witness ==
    \E t \in Callers :
        /\ Done(t, "forge_operation")
        /\ arg[t].kind = "delegation"
        /\ {"parameters", "public_key"} \subseteq DOMAIN arg[t]
        /\ ret[t].ok

====
